---- MODULE Spec2Model ----
(***************************************************************************)
(* Model of the daily sync job of main.py: the persisted sync state, the   *)
(* delta detector (detect_delta), the uploader (upload_delta) and the      *)
(* orchestrator (main), run against a remote file store / vector store.    *)
(***************************************************************************)
EXTENDS Integers, Sequences, FiniteSets, TLC

\* ------------------------------------------------------------------ bounds
MaxFiles == 2      \* number of distinct file names (document keys)
MaxRuns  == 2      \* number of invocations of main()
MaxIds   == 4      \* number of ids the remote service hands out

Names == 1..MaxFiles          \* file names, ordered as sorted() orders them

\* ------------------------------------------------------- file contents
\* A file is a sequence of lines; a line either starts with the prefix
\* 'Last Modified:' (prefix = TRUE, rest = what follows it) or not.
Line(p, r) == [prefix |-> p, rest |-> r]

ContentList ==
  << << Line(FALSE, "body") >>,
     << Line(FALSE, "body"), Line(TRUE, " d1") >>,
     << Line(TRUE, " d2 "), Line(TRUE, " d1") >> >>

Contents == { ContentList[i] : i \in 1..Len(ContentList) }

None == "<None>"              \* Python None where a string is expected
NoId == 0                     \* the empty file id ""
Absent == -1                  \* a key that is not in the dict

\* str.strip() on the strings that occur after the prefix
Strip(s) ==
  CASE s = " d1"  -> "d1"
    [] s = " d2 " -> "d2"
    [] OTHER      -> s

RECURSIVE FirstMarker(_, _)
FirstMarker(lines, i) ==
  IF i > Len(lines) THEN None
  ELSE IF lines[i].prefix THEN Strip(lines[i].rest)
  ELSE FirstMarker(lines, i + 1)

\* parse_last_modified: the first line that starts with the prefix, with the
\* prefix removed and stripped; None when there is no such line
parse_last_modified(content) == FirstMarker(content, 1)

\* compute_sha256: a digest of the exact bytes, collision-free on Contents
compute_sha256(content) ==
  100 + (CHOOSE i \in 1..Len(ContentList) : ContentList[i] = content)

\* st_size: the length of the file (two different files may have one size)
st_size(content) == Len(content)

\* a snapshot of ARTICLES_DIR: a function from the names present to contents
Snapshots == UNION { [S -> Contents] : S \in SUBSET Names }

\* discover_markdown_files: the names present, sorted
RECURSIVE SortedSeq(_)
SortedSeq(S) ==
  IF S = {} THEN << >>
  ELSE LET m == CHOOSE x \in S : \A y \in S : x <= y
       IN << m >> \o SortedSeq(S \ {m})

discover_markdown_files(dir) == SortedSeq(DOMAIN dir)

Range(seq) == { seq[i] : i \in 1..Len(seq) }

\* ------------------------------------------------------- the sync state
\* One record of the "files" dict.  hash = Absent and last_modified = None
\* stand for a record that lacks the key (dict.get returns None).
FileRec(h, id, lm, ts, sz) ==
  [hash |-> h, file_id |-> id, last_modified |-> lm, last_sync |-> ts, size |-> sz]

NoRecs == [n \in {} |-> FileRec(Absent, NoId, None, 0, 0)]

\* The value under the key "files": a dict of records, or (after a manual
\* edit of the file) null or a list, or no such key at all.
FilesDict(recs) == [type |-> "dict", recs |-> recs]
FilesNull   == [type |-> "null",   recs |-> NoRecs]
FilesList   == [type |-> "list",   recs |-> NoRecs]
FilesAbsent == [type |-> "absent", recs |-> NoRecs]

NoneTime == 0                 \* None where a timestamp is expected
NoStr == "<absent>"           \* a string-valued key that is not in the dict

\* What json.loads returns: a dict (isdict) with the keys the job uses, or
\* some other JSON value (a list, a number, a string, null).
StateDict(f, lr, a, v, tf, ts) ==
  [isdict |-> TRUE, files |-> f, last_run |-> lr, assistant_id |-> a,
   vector_store_id |-> v, total_files |-> tf, total_size |-> ts]

NonDict ==
  [isdict |-> FALSE, files |-> FilesAbsent, last_run |-> Absent, assistant_id |-> NoStr,
   vector_store_id |-> NoStr, total_files |-> Absent, total_size |-> Absent]

\* {"files": {}, "last_run": None}
EmptyState == StateDict(FilesDict(NoRecs), NoneTime, NoStr, NoStr, Absent, Absent)

\* json.dumps(state, indent=2, sort_keys=True): the "files" dict becomes the
\* list of its (key, record) pairs in sorted key order
RECURSIVE PairsOf(_, _)
PairsOf(recs, keys) ==
  IF keys = << >> THEN << >>
  ELSE << << Head(keys), recs[Head(keys)] >> >> \o PairsOf(recs, Tail(keys))

Dumps(state) ==
  [state EXCEPT !.files = [type |-> state.files.type,
                           pairs |-> PairsOf(state.files.recs, SortedSeq(DOMAIN state.files.recs))]]

\* json.loads: a later pair with the same key replaces an earlier one
RECURSIVE DictOf(_)
DictOf(pairs) ==
  IF pairs = << >> THEN NoRecs
  ELSE LET n == Len(pairs)
           front == DictOf(SubSeq(pairs, 1, n - 1))
           k == pairs[n][1]
       IN [x \in (DOMAIN front) \cup {k} |-> IF x = k THEN pairs[n][2] ELSE front[x]]

Loads(text) ==
  [text EXCEPT !.files = [type |-> text.files.type, recs |-> DictOf(text.files.pairs)]]

\* The state file on disk
MissingFile    == [kind |-> "missing",    text |-> Dumps(EmptyState)]
UnreadableFile == [kind |-> "unreadable", text |-> Dumps(EmptyState)]
GarbageFile    == [kind |-> "garbage",    text |-> Dumps(EmptyState)]
JsonFile(text) == [kind |-> "json",       text |-> text]

\* Faulty variant of read_sync_state: the test of line 66 inverted, so that an
\* existing file gives the default state (and a missing one raises, which
\* gives the default state too).  Used to show that C18_RoundTrip depends on
\* the file being read back.
read_sync_state_ExistsInverted(file) == EmptyState

\* read_sync_state: the default state when the file is missing, cannot be
\* read (PermissionError) or is not JSON (any other exception); otherwise
\* whatever json.loads returns
read_sync_state(file) ==
  IF file.kind = "json" THEN Loads(file.text) ELSE EmptyState

\* write_sync_state: the file after the call; an OSError is swallowed and
\* leaves the file as it was
write_sync_state(file, state, writable) ==
  IF writable THEN JsonFile(Dumps(state)) ELSE file

\* ------------------------------------------------------- detect_delta
Raised == [raised |-> TRUE, to_add |-> << >>, to_update |-> << >>, removed |-> << >>, skipped |-> 0]

\* Faulty variant of Classify: "and" in place of "or" at line 140.  Used to
\* show that C10_HashChangeIsUpdate depends on the branch condition.
Classify_AndBug(name, content, known) ==
  IF name \notin DOMAIN known THEN "add"
  ELSE LET last_modified == parse_last_modified(content)
           hash_changed == known[name].hash /= compute_sha256(content)
           date_changed == /\ known[name].last_modified /= last_modified
                           /\ last_modified /= None
                           /\ known[name].last_modified /= None
       IN IF hash_changed /\ date_changed THEN "update" ELSE "skip"

\* Faulty variant of Classify: the two "is not None" tests of lines 137-138
\* left out.  Used to show that C11_MarkerRule depends on them.
Classify_NoNoneTest(name, content, known) ==
  IF name \notin DOMAIN known THEN "add"
  ELSE LET last_modified == parse_last_modified(content)
           hash_changed == known[name].hash /= compute_sha256(content)
           date_changed == known[name].last_modified /= last_modified
       IN IF hash_changed \/ date_changed THEN "update" ELSE "skip"

\* the branch taken for one current file (lines 126-153)
Classify(name, content, known) ==
  IF name \notin DOMAIN known THEN "add"
  ELSE LET known_hash == known[name].hash
           known_last_modified == known[name].last_modified
           last_modified == parse_last_modified(content)
           hash_changed == known_hash /= compute_sha256(content)
           date_changed == /\ known_last_modified /= last_modified
                           /\ last_modified /= None
                           /\ known_last_modified /= None
       IN IF hash_changed \/ date_changed THEN "update" ELSE "skip"

\* Faulty variant of SelectAdd: the test of line 126 left out.  Used to show
\* that C12_ByKeyPresence depends on it.
SelectAdd_All(files, dir, known) == files

RECURSIVE SelectAdd(_, _, _)
SelectAdd(files, dir, known) ==
  IF files = << >> THEN << >>
  ELSE (IF Classify(Head(files), dir[Head(files)], known) = "add"
        THEN << Head(files) >> ELSE << >>) \o SelectAdd(Tail(files), dir, known)

RECURSIVE SelectUpdate(_, _, _)
SelectUpdate(files, dir, known) ==
  IF files = << >> THEN << >>
  ELSE (IF Classify(Head(files), dir[Head(files)], known) = "update"
        THEN << << Head(files), known[Head(files)].file_id >> >> ELSE << >>)
       \o SelectUpdate(Tail(files), dir, known)

RECURSIVE CountSkip(_, _, _)
CountSkip(files, dir, known) ==
  IF files = << >> THEN 0
  ELSE (IF Classify(Head(files), dir[Head(files)], known) = "skip" THEN 1 ELSE 0)
       + CountSkip(Tail(files), dir, known)

\* Faulty variant of SelectRemoved: the test of line 158 left out.  Used to
\* show that C1_Partition depends on it.
SelectRemoved_NoTest(keys, current) == keys

RECURSIVE SelectRemoved(_, _)
SelectRemoved(keys, current) ==
  IF keys = << >> THEN << >>
  ELSE (IF Head(keys) \notin current THEN << Head(keys) >> ELSE << >>)
       \o SelectRemoved(Tail(keys), current)

\* detect_delta(files, sync_state) on the directory dir.  sync_state.get on a
\* value that is not a dict, and "in"/iteration on null, raise.
detect_delta(files, dir, sync_state) ==
  IF ~sync_state.isdict \/ sync_state.files.type = "null" THEN Raised
  ELSE LET known == sync_state.files.recs
       IN [raised    |-> FALSE,
           to_add    |-> SelectAdd(files, dir, known),
           to_update |-> SelectUpdate(files, dir, known),
           removed   |-> SelectRemoved(SortedSeq(DOMAIN known), Range(files)),
           skipped   |-> CountSkip(files, dir, known)]

\* ------------------------------------------------------------- state
VARIABLES
  docs,          \* ARTICLES_DIR on disk: name -> content
  stateFile,     \* runs/sync_state.json on disk
  summaryWrites, \* number of times this invocation wrote runs/last_run.json
  remoteFiles,   \* ids of the files that exist at the remote service
  attached,      \* ids of the files attached to the vector store
  fileName,      \* id -> name of the file it was uploaded from
  nextId,        \* the next id the remote service hands out
  clock,         \* what now_iso() returns
  runs,          \* number of invocations so far
  pc,            \* where main() is: idle, scrape, ensure, detect, delete, upload, save, done, failed
  outcome,       \* why the invocation ended
  cfg,           \* which of the required environment variables are set
  files,         \* main: files
  sync_state,    \* main: sync_state
  to_add,        \* main: to_add
  to_update,     \* main: to_update, pairs <<name, old_file_id>>
  removed,       \* main: removed
  skipped,       \* main: skipped
  idx,           \* position of the loop that is running in upload_delta
  new_ids,       \* upload_delta: new_ids
  deleted_ids,   \* upload_delta: deleted_ids
  calls,         \* the remote calls this invocation has issued, in order
  wrote,         \* this invocation has written the state file
  startFile,     \* the state file as it was when this invocation started
  prev,          \* the previous invocation: its snapshot and how it ended
  runsDir,       \* RUNS_DIR: "primary" (ROOT/runs) or "tmp" (/tmp/runs)
  delete_errors, \* old file ids whose detach or delete raised in this invocation
  deleteRaised   \* a detach or delete call has raised in some invocation

vars == << docs, stateFile, summaryWrites, remoteFiles, attached, fileName, nextId, clock,
           runs, pc, outcome, cfg, files, sync_state, to_add, to_update, removed, skipped,
           idx, new_ids, deleted_ids, calls, wrote, startFile, prev, runsDir, delete_errors,
           deleteRaised >>

remoteVars == << remoteFiles, attached, fileName, nextId >>
deltaVars  == << files, sync_state, to_add, to_update, removed, skipped >>

\* the environment: OPENAI_API_KEY, ASSISTANT_ID, VECTOR_STORE_ID set or not
Config(k, a, v) == [api_key |-> k, assistant_id |-> a, vector_store_id |-> v]
Configs == { Config(TRUE, TRUE, TRUE), Config(FALSE, TRUE, TRUE),
             Config(TRUE, FALSE, TRUE), Config(TRUE, TRUE, FALSE) }

AssistantId == "asst"
VectorStoreId == "vs"

\* state files a deployment can start from: none, unreadable, not JSON, JSON
\* of another shape, and hand-edited records: file 1 with the digest of a
\* content whose marker is "d1" but the marker "d2", file 2 with the digest of
\* a content without marker but the marker "d1"
EditedState ==
  StateDict(FilesDict([n \in {1, 2} |->
              IF n = 1
              THEN FileRec(compute_sha256(ContentList[2]), NoId, "d2", NoneTime, 2)
              ELSE FileRec(compute_sha256(ContentList[1]), NoId, "d1", NoneTime, 1)]),
            NoneTime, NoStr, NoStr, Absent, Absent)

InitStateFiles ==
  { MissingFile, UnreadableFile, GarbageFile,
    JsonFile(Dumps(NonDict)),
    JsonFile(Dumps(StateDict(FilesNull, NoneTime, NoStr, NoStr, Absent, Absent))),
    JsonFile(Dumps(StateDict(FilesList, NoneTime, NoStr, NoStr, Absent, Absent))),
    JsonFile(Dumps(StateDict(FilesAbsent, Absent, NoStr, NoStr, Absent, Absent))),
    JsonFile(Dumps(EditedState)) }

NoPrev == [ran |-> FALSE, docs |-> << >>, pc |-> "idle", outcome |-> "", wrote |-> FALSE]

\* the module is imported: RUNS_DIR is ROOT/runs, or /tmp/runs when creating
\* ROOT/runs raises PermissionError; /tmp/runs starts without a state file
Init ==
  /\ docs = << >>
  /\ \/ runsDir = "primary" /\ stateFile \in InitStateFiles
     \/ runsDir = "tmp" /\ stateFile = MissingFile
  /\ delete_errors = {}
  /\ deleteRaised = FALSE
  /\ summaryWrites = 0
  /\ remoteFiles = {}
  /\ attached = {}
  /\ fileName = << >>
  /\ nextId = 1
  /\ clock = 0
  /\ runs = 0
  /\ pc = "idle"
  /\ outcome = ""
  /\ cfg = Config(TRUE, TRUE, TRUE)
  /\ files = << >>
  /\ sync_state = EmptyState
  /\ to_add = << >>
  /\ to_update = << >>
  /\ removed = << >>
  /\ skipped = 0
  /\ idx = 1
  /\ new_ids = << >>
  /\ deleted_ids = << >>
  /\ calls = << >>
  /\ wrote = FALSE
  /\ startFile = stateFile
  /\ prev = NoPrev

\* /tmp/runs/sync_state.json: the file the job works on when RUNS_DIR fell
\* back at import, and otherwise a file no line of the job writes
TmpFile == IF runsDir = "tmp" THEN stateFile ELSE MissingFile

Ended == pc \in {"idle", "done", "failed"}

\* main, lines 262-294: a new invocation; SystemExit when OPENAI_API_KEY is not set
StartRun ==
  /\ Ended
  /\ runs < MaxRuns
  /\ \E c \in Configs : cfg' = c
  /\ runs' = runs + 1
  /\ clock' = clock + 1
  /\ prev' = [ran |-> runs > 0, docs |-> docs, pc |-> pc, outcome |-> outcome,
               wrote |-> wrote]
  /\ startFile' = stateFile
  /\ summaryWrites' = 0
  /\ files' = << >>
  /\ sync_state' = EmptyState
  /\ to_add' = << >>
  /\ to_update' = << >>
  /\ removed' = << >>
  /\ skipped' = 0
  /\ idx' = 1
  /\ new_ids' = << >>
  /\ deleted_ids' = << >>
  /\ calls' = << >>
  /\ wrote' = FALSE
  /\ IF cfg'.api_key
     THEN pc' = "scrape" /\ outcome' = ""
     ELSE pc' = "failed" /\ outcome' = "config"
  /\ delete_errors' = {}
  /\ UNCHANGED << docs, stateFile, runsDir, deleteRaised >>
  /\ UNCHANGED remoteVars

\* run_scraper: the subprocess rewrites ARTICLES_DIR; a non-zero exit code
\* raises SystemExit
RunScraper ==
  /\ pc = "scrape"
  /\ \E d \in Snapshots, ok \in BOOLEAN :
       /\ docs' = d
       /\ IF ok THEN pc' = "ensure" /\ outcome' = outcome
                ELSE pc' = "failed" /\ outcome' = "scraper"
  /\ UNCHANGED << stateFile, summaryWrites, clock, runs, cfg, idx, new_ids, deleted_ids,
                  calls, wrote, startFile, prev, runsDir, delete_errors, deleteRaised >>
  /\ UNCHANGED remoteVars
  /\ UNCHANGED deltaVars

\* Faulty variant of ConfigValid: the test of VECTOR_STORE_ID left out.  Used
\* to show that C17_ConfigErrorsFirst depends on it.
ConfigValid_NoVectorStoreTest(c) == c.assistant_id

\* both ids are set (lines 201-204)
ConfigValid(c) == c.assistant_id /\ c.vector_store_id

\* ensure_assistant_and_vector_store: SystemExit when an id is missing or a
\* remote call fails; the assistant is updated once it has been retrieved
EnsureAssistant ==
  /\ pc = "ensure"
  /\ IF ~ConfigValid(cfg)
     THEN /\ pc' = "failed" /\ outcome' = "config"
          /\ calls' = calls
     ELSE \E res \in {"ok", "retrieve_fail", "update_fail", "vs_fail"} :
            /\ calls' = IF res = "retrieve_fail" THEN calls
                        ELSE Append(calls, << "assistants.update", 0 >>)
            /\ IF res = "ok" THEN pc' = "detect" /\ outcome' = outcome
                             ELSE pc' = "failed" /\ outcome' = "assistant"
  /\ UNCHANGED << docs, stateFile, summaryWrites, clock, runs, cfg, idx, new_ids,
                  deleted_ids, wrote, startFile, prev, runsDir, delete_errors, deleteRaised >>
  /\ UNCHANGED remoteVars
  /\ UNCHANGED deltaVars

\* main, lines 310-334: discover the files, read the state, detect the delta;
\* an exception of detect_delta ends the invocation
DetectDelta ==
  /\ pc = "detect"
  /\ LET fs == discover_markdown_files(docs)
         st == read_sync_state(stateFile)
         d  == detect_delta(fs, docs, st)
     IN /\ files' = fs
        /\ sync_state' = st
        /\ to_add' = d.to_add
        /\ to_update' = d.to_update
        /\ removed' = d.removed
        /\ skipped' = d.skipped
        /\ IF d.raised THEN pc' = "failed" /\ outcome' = "state"
           ELSE /\ outcome' = outcome
                /\ pc' = IF d.to_update /= << >> THEN "delete"
                         ELSE IF d.to_add /= << >> THEN "upload"
                         ELSE "save"
  /\ idx' = 1
  /\ UNCHANGED << docs, stateFile, summaryWrites, clock, runs, cfg, new_ids, deleted_ids,
                  calls, wrote, startFile, prev, runsDir, delete_errors, deleteRaised >>
  /\ UNCHANGED remoteVars

\* ------------------------------------------------------- upload_delta
RECURSIVE Firsts(_)
Firsts(pairs) ==
  IF pairs = << >> THEN << >> ELSE << Head(pairs)[1] >> \o Firsts(Tail(pairs))

\* upload_paths = files_to_add + [p for p, _ in files_to_update]
upload_paths(add, update) == add \o Firsts(update)

\* Faulty variant of AfterUpload: the return of line 259 indented into the
\* loop.  Used to show that C7_StateWrittenLast depends on the loop finishing.
AfterUpload_ReturnInLoop == "save"

\* Faulty variant of AfterDelete: a break at the end of the first pass of the
\* first loop.  Used to show that C15_DeleteBeforeReupload depends on the
\* first loop finishing before the second starts.
AfterDelete_Break == "upload"

\* after the body of a loop: stay in the loop or go on to what follows it
AfterDelete == IF idx < Len(to_update) THEN "delete" ELSE "upload"
AfterUpload == IF idx < Len(upload_paths(to_add, to_update)) THEN "upload" ELSE "save"

\* Faulty variant of RecordDeleted: the append of line 248 moved in front of
\* the two calls.  Used to show that C14_DeleteFailureNonFatal depends on the
\* append being skipped when a call raises.
RecordDeleted_Always(ids, old_file_id, ok) == Append(ids, old_file_id)

\* deleted_ids.append(old_file_id), reached only when neither call raised
RecordDeleted(ids, old_file_id, ok) == IF ok THEN Append(ids, old_file_id) ELSE ids

\* upload_delta, lines 244-250: one pass of the loop over files_to_update.
\* Detach the old file from the vector store, then delete it; an exception
\* of either call is swallowed and the id is not recorded as deleted.
DeleteOld ==
  /\ pc = "delete"
  /\ idx <= Len(to_update)
  /\ LET old_file_id == to_update[idx][2]
     IN \E res \in {"ok", "detach_fail", "delete_fail"} :
          LET detached == res /= "detach_fail" /\ old_file_id \in attached
              deleted  == detached /\ res = "ok" /\ old_file_id \in remoteFiles
          IN /\ attached' = IF detached THEN attached \ {old_file_id} ELSE attached
             /\ remoteFiles' = IF deleted THEN remoteFiles \ {old_file_id} ELSE remoteFiles
             /\ deleted_ids' = RecordDeleted(deleted_ids, old_file_id, deleted)
             /\ delete_errors' = IF deleted THEN delete_errors
                                 ELSE delete_errors \cup {old_file_id}
             /\ deleteRaised' = (deleteRaised \/ ~deleted)
             /\ calls' = IF detached
                         THEN calls \o << << "detach", old_file_id >>, << "delete", old_file_id >> >>
                         ELSE Append(calls, << "detach", old_file_id >>)
  /\ pc' = AfterDelete
  /\ idx' = IF pc' = "delete" THEN idx + 1 ELSE 1
  /\ UNCHANGED << docs, stateFile, summaryWrites, fileName, nextId, clock, runs, outcome,
                  cfg, new_ids, wrote, startFile, prev, runsDir >>
  /\ UNCHANGED deltaVars

\* upload_delta, lines 254-258: one pass of the loop over upload_paths.
\* Create the file, attach it, record its id; an exception of either call
\* leaves upload_delta and main.
UploadOne ==
  /\ pc = "upload"
  /\ idx <= Len(upload_paths(to_add, to_update))
  /\ LET p == upload_paths(to_add, to_update)[idx]
     IN \E res \in {"ok", "create_fail", "attach_fail"} :
          /\ res /= "create_fail" => nextId <= MaxIds
          /\ IF res = "create_fail"
             THEN /\ UNCHANGED << remoteFiles, attached, fileName, nextId, new_ids >>
                  /\ calls' = Append(calls, << "create", p >>)
                  /\ pc' = "failed" /\ outcome' = "upload"
                  /\ idx' = idx
             ELSE /\ remoteFiles' = remoteFiles \cup {nextId}
                  /\ fileName' = [i \in (DOMAIN fileName) \cup {nextId} |->
                                    IF i = nextId THEN p ELSE fileName[i]]
                  /\ nextId' = nextId + 1
                  /\ calls' = calls \o << << "create", p >>, << "attach", nextId >> >>
                  /\ IF res = "ok"
                     THEN /\ attached' = attached \cup {nextId}
                          /\ new_ids' = [n \in (DOMAIN new_ids) \cup {p} |->
                                           IF n = p THEN nextId ELSE new_ids[n]]
                          /\ pc' = AfterUpload /\ outcome' = outcome
                          /\ idx' = IF pc' = "upload" THEN idx + 1 ELSE 1
                     ELSE /\ UNCHANGED << attached, new_ids >>
                          /\ pc' = "failed" /\ outcome' = "upload"
                          /\ idx' = idx
  /\ UNCHANGED << docs, stateFile, summaryWrites, clock, runs, cfg, deleted_ids, wrote,
                  startFile, prev, runsDir, delete_errors, deleteRaised >>
  /\ UNCHANGED deltaVars

\* ------------------------------------------------- main, step 5 and 6
\* Faulty variant of NewRec: the "hash" key left out of the record.  Used to
\* show that C4_Idempotent depends on the stored digest.
NewRec_NoHash(name, dir, ids, now) ==
  FileRec(Absent,
          IF name \in DOMAIN ids THEN ids[name] ELSE NoId,
          parse_last_modified(dir[name]),
          now,
          st_size(dir[name]))

\* the record written for an added or updated file (lines 349-355, 365-371)
NewRec(name, dir, ids, now) ==
  FileRec(compute_sha256(dir[name]),
          IF name \in DOMAIN ids THEN ids[name] ELSE NoId,
          parse_last_modified(dir[name]),
          now,
          st_size(dir[name]))

\* Faulty variant of PutAll: the loop runs over every current file instead
\* of the files of the list.  Used to show that C19_UnchangedUntouched
\* depends on the unchanged records being left alone.
PutAll_EveryFile(known, names, dir, ids, now) ==
  [n \in (DOMAIN known) \cup Range(names) |->
     IF n \in DOMAIN dir THEN NewRec(n, dir, ids, now) ELSE known[n]]

\* known_files[filename] = {...} for every name of the sequence
RECURSIVE PutAll(_, _, _, _, _)
PutAll(known, names, dir, ids, now) ==
  IF names = << >> THEN known
  ELSE LET k == Head(names)
           put == [n \in (DOMAIN known) \cup {k} |->
                     IF n = k THEN NewRec(k, dir, ids, now) ELSE known[n]]
       IN PutAll(put, Tail(names), dir, ids, now)

\* Faulty variant of PopAll: the pop of line 375 left out.  Used to show that
\* C22_KeysAreSnapshot depends on the removed keys being dropped.
PopAll_Keep(known, names) == known

\* known_files.pop(filename, None) for every name of the sequence
RECURSIVE PopAll(_, _)
PopAll(known, names) ==
  IF names = << >> THEN known
  ELSE PopAll([n \in (DOMAIN known) \ {Head(names)} |-> known[n]], Tail(names))

RECURSIVE TotalSize(_, _)
TotalSize(fs, dir) ==
  IF fs = << >> THEN 0 ELSE st_size(dir[Head(fs)]) + TotalSize(Tail(fs), dir)

\* Faulty variant of Reconcile: last_sync refreshed in every record, not only
\* in the added and updated ones.  Used to show that C5_StableButLastRun
\* depends on unchanged records being left alone.
Reconcile_TouchAll(known, add, update, rem, dir, ids, now) ==
  LET r == PopAll(PutAll(PutAll(known, add, dir, ids, now), Firsts(update), dir, ids, now), rem)
  IN [n \in DOMAIN r |-> [r[n] EXCEPT !.last_sync = now]]

\* the records after lines 338-375
Reconcile(known, add, update, rem, dir, ids, now) ==
  PopAll(PutAll(PutAll(known, add, dir, ids, now), Firsts(update), dir, ids, now), rem)

\* sync_state after sync_state.update(...), lines 378-385
UpdatedState(st, fs, add, update, rem, dir, ids, now) ==
  StateDict(IF st.files.type = "list" THEN FilesList
            ELSE FilesDict(Reconcile(st.files.recs, add, update, rem, dir, ids, now)),
            now, AssistantId, VectorStoreId, Len(fs), TotalSize(fs, dir))

\* main, lines 336-400: update the records, write the state, finish.
\* Item assignment on a list raises; write_sync_state swallows its errors.
SaveState ==
  /\ pc = "save"
  /\ IF sync_state.files.type = "list" /\ to_add /= << >>
     THEN /\ pc' = "failed" /\ outcome' = "state"
          /\ UNCHANGED << stateFile, sync_state, wrote >>
     ELSE \E writable \in BOOLEAN :
            /\ sync_state' = UpdatedState(sync_state, files, to_add, to_update, removed,
                                          docs, new_ids, clock)
            /\ stateFile' = write_sync_state(stateFile, sync_state', writable)
            /\ wrote' = writable
            /\ pc' = "done" /\ outcome' = "success"
  /\ UNCHANGED << docs, summaryWrites, clock, runs, cfg, files, to_add, to_update, removed,
                  skipped, idx, new_ids, deleted_ids, calls, startFile, prev, runsDir,
                  delete_errors, deleteRaised >>
  /\ UNCHANGED remoteVars

\* the process is killed while main is running
Interrupt ==
  /\ pc \in {"scrape", "ensure", "detect", "delete", "upload", "save"}
  /\ pc' = "failed"
  /\ outcome' = "killed"
  /\ UNCHANGED << docs, stateFile, summaryWrites, clock, runs, cfg, idx, new_ids,
                  deleted_ids, calls, wrote, startFile, prev, runsDir, delete_errors, deleteRaised >>
  /\ UNCHANGED remoteVars
  /\ UNCHANGED deltaVars

Next ==
  \/ StartRun
  \/ RunScraper
  \/ EnsureAssistant
  \/ DetectDelta
  \/ DeleteOld
  \/ UploadOne
  \/ SaveState
  \/ Interrupt

Spec == Init /\ [][Next]_vars

\* ------------------------------------------- a deployment after two runs
\* The state two invocations of main() leave behind (it is a state of Spec
\* but for the run counter): the first found no state file, uploaded file 1
\* as remote file 1 and wrote its state; the second found the file edited,
\* detached and deleted remote file 1 (lines 244-250) and then aborted in
\* files.create (line 255), so that the state file still names remote file 1.
FirstDocs == [n \in {1} |-> ContentList[1]]
EditedDocs == [n \in {1} |-> ContentList[2]]
FirstStateFile ==
  JsonFile(Dumps(UpdatedState(EmptyState, << 1 >>, << 1 >>, << >>, << >>, FirstDocs,
                              [n \in {1} |-> 1], 1)))

AfterAbortedUpdate ==
  /\ docs = EditedDocs
  /\ runsDir = "primary"
  /\ stateFile = FirstStateFile
  /\ startFile = FirstStateFile
  /\ summaryWrites = 0
  /\ remoteFiles = {}
  /\ attached = {}
  /\ fileName = << 1 >>
  /\ nextId = 2
  /\ clock = 2
  /\ pc = "failed"
  /\ outcome = "upload"
  /\ cfg = Config(TRUE, TRUE, TRUE)
  /\ files = << 1 >>
  /\ sync_state = read_sync_state(FirstStateFile)
  /\ to_add = << >>
  /\ to_update = << << 1, 1 >> >>
  /\ removed = << >>
  /\ skipped = 0
  /\ idx = 1
  /\ new_ids = << >>
  /\ deleted_ids = << 1 >>
  /\ calls = << << "assistants.update", 0 >>, << "detach", 1 >>, << "delete", 1 >>,
                << "create", 1 >> >>
  /\ wrote = FALSE
  /\ prev = [ran |-> TRUE, docs |-> FirstDocs, pc |-> "done", outcome |-> "success",
             wrote |-> TRUE]
  /\ delete_errors = {}
  /\ deleteRaised = FALSE

InitRecovery == AfterAbortedUpdate /\ runs = 0

SpecRecovery == InitRecovery /\ [][Next]_vars

\* ===================================================================
\* Properties
\* ===================================================================
\* the records the invocation read at its start
Known == read_sync_state(startFile).files.recs

Added   == Range(to_add)
Updated == Range(Firsts(to_update))
Removed == Range(removed)

\* detect_delta has returned and step 5 has not yet changed anything
Detected == pc \in {"delete", "upload", "save"}

\* detect_delta has returned in this invocation
PostDetect == Detected \/ pc = "done" \/ (pc = "failed" /\ outcome = "upload")

\* the records in the state file
Persisted == read_sync_state(stateFile).files.recs

\* C1: detect_delta puts every key of D \cup keys(S) into exactly one of
\* Added, Updated, Unchanged (a count), Removed: the lists have no duplicates,
\* are pairwise disjoint, hold only keys of D \cup keys(S), and together with
\* the Unchanged count they account for every key exactly once.
C1_Partition ==
  Detected =>
    LET D == Range(files)
        K == DOMAIN Known
    IN /\ Cardinality(Added) = Len(to_add)
       /\ Cardinality(Updated) = Len(to_update)
       /\ Cardinality(Removed) = Len(removed)
       /\ Added \cap Updated = {}
       /\ Added \cap Removed = {}
       /\ Updated \cap Removed = {}
       /\ (Added \cup Updated \cup Removed) \subseteq (D \cup K)
       /\ Added \cup Updated \subseteq D
       /\ skipped = Cardinality(D \ (Added \cup Updated))
       /\ Len(to_add) + Len(to_update) + skipped + Len(removed) = Cardinality(D \cup K)

C1_Witness ==
  /\ Detected
  /\ to_update /= << >>
  /\ removed /= << >>

C1_WitnessSkip ==
  /\ Detected
  /\ to_add /= << >>
  /\ skipped > 0

\* C2: when one upload of a run fails, the other uploads of the run are still
\* attempted, and the files uploaded successfully are recorded in the
\* persisted state.
C2_UploadFailureIsolated ==
  (pc = "failed" /\ outcome = "upload") =>
    \A n \in Range(upload_paths(to_add, to_update)) :
      /\ << "create", n >> \in Range(calls)
      /\ n \in DOMAIN new_ids =>
           /\ n \in DOMAIN Persisted
           /\ Persisted[n].file_id = new_ids[n]

\* C3: an invocation that has ended has written runs/last_run.json exactly once.
C3_SummaryWrittenOnce ==
  pc \in {"done", "failed"} => summaryWrites = 1

\* the previous invocation ran to completion, this one classified the same
\* snapshot
SecondRunSameDocs ==
  /\ prev.ran
  /\ prev.pc = "done"
  /\ PostDetect
  /\ docs = prev.docs

NothingToDo ==
  /\ to_add = << >>
  /\ to_update = << >>
  /\ removed = << >>

\* C4 as stated: a run after a completed run over the same documents reports
\* added = updated = removed = 0.
C4_Original ==
  SecondRunSameDocs => NothingToDo

\* what holds of C4 in the code: a run after a completed run that wrote its
\* state, over the same documents, reports added = updated = removed = 0 and
\* skips every file.
C4_Idempotent ==
  (SecondRunSameDocs /\ prev.wrote) => (NothingToDo /\ skipped = Len(files))

C4_Witness ==
  /\ SecondRunSameDocs
  /\ prev.wrote
  /\ pc = "done"
  /\ Len(files) = MaxFiles

\* both invocations completed and wrote the state, over the same documents
BothPersisted ==
  /\ SecondRunSameDocs
  /\ prev.wrote
  /\ pc = "done"
  /\ wrote

\* C5 as stated: the state the second run persists is identical to the state
\* the first run persisted.
C5_Original ==
  BothPersisted => stateFile = startFile

\* C5: the state the second run persists equals the state the first run
\* persisted in everything but the last_run timestamp.
C5_StableButLastRun ==
  BothPersisted =>
    /\ stateFile.kind = startFile.kind
    /\ [stateFile.text EXCEPT !.last_run = NoneTime] = [startFile.text EXCEPT !.last_run = NoneTime]

C5_Witness ==
  /\ BothPersisted
  /\ Len(files) = MaxFiles
  /\ stateFile.text.last_run /= startFile.text.last_run

\* the state file is missing, unreadable, not JSON, or JSON of another shape
BadFile(file) ==
  \/ file.kind /= "json"
  \/ ~Loads(file.text).isdict
  \/ Loads(file.text).files.type \in {"null", "list"}

\* C6: with a missing, unreadable or malformed state file the run does not
\* fail on the state; it goes on with every current file classified Added.
C6_LoadNeverAborts ==
  BadFile(startFile) =>
    /\ ~(pc = "failed" /\ outcome = "state")
    /\ PostDetect => (to_add = files /\ to_update = << >> /\ removed = << >>)

\* every delete and every upload of the run has been attempted
AllAttempted ==
  /\ \A i \in 1..Len(to_update) : << "detach", to_update[i][2] >> \in Range(calls)
  /\ \A n \in Range(upload_paths(to_add, to_update)) : << "create", n >> \in Range(calls)

\* every record written for an added or updated file names a file that this
\* run uploaded from that file and attached
RecordedUploadsHappened ==
  \A n \in Range(upload_paths(to_add, to_update)) :
    /\ n \in DOMAIN Persisted
    /\ Persisted[n].file_id \in DOMAIN fileName
    /\ fileName[Persisted[n].file_id] = n
    /\ << "attach", Persisted[n].file_id >> \in Range(calls)
    /\ Persisted[n].file_id \in attached

C7_WitnessWritten ==
  /\ pc = "done"
  /\ stateFile /= startFile
  /\ to_update /= << >>
  /\ to_add /= << >>

\* C8: after a run in which no remote call failed, the remote file recorded
\* for every Updated and every Removed document is no longer attached.
C8_OldFilesDetached ==
  (pc = "done" /\ Len(deleted_ids) = Len(to_update)) =>
    \A n \in Updated \cup Removed :
      Known[n].file_id /= NoId => Known[n].file_id \notin attached

\* C9: with an empty snapshot and a non-empty prior state the run does not
\* classify every known key as Removed and does not erase the keys from the
\* persisted state.
C9_EmptySnapshotGuard ==
  (PostDetect /\ files = << >> /\ DOMAIN Known /= {}) =>
    /\ Removed /= DOMAIN Known
    /\ DOMAIN Known \subseteq DOMAIN Persisted

\* C10: a current file that has a record whose hash differs from the file's
\* digest is in to_update, once, with the file id of that record, and is not
\* in to_add.
C10_HashChangeIsUpdate ==
  PostDetect =>
    \A n \in Range(files) :
      (n \in DOMAIN Known /\ Known[n].hash /= compute_sha256(docs[n])) =>
        /\ \E i \in 1..Len(to_update) : to_update[i] = << n, Known[n].file_id >>
        /\ Cardinality({ i \in 1..Len(to_update) : to_update[i][1] = n }) = 1
        /\ n \notin Added

C10_Witness ==
  /\ PostDetect
  /\ \E n \in Range(files) :
       /\ n \in DOMAIN Known
       /\ Known[n].hash /= compute_sha256(docs[n])
       /\ (Known[n].last_modified = None \/ parse_last_modified(docs[n]) = None)
       /\ Known[n].file_id /= NoId
       /\ << n, Known[n].file_id >> \in Range(to_update)

\* C11: a current file whose digest equals the stored hash is in to_update
\* exactly when the stored marker and the marker of the file are both not
\* None and differ; when either is None the file is unchanged (in neither
\* to_add nor to_update).
C11_MarkerRule ==
  PostDetect =>
    \A n \in Range(files) :
      (n \in DOMAIN Known /\ Known[n].hash = compute_sha256(docs[n])) =>
        LET old == Known[n].last_modified
            new == parse_last_modified(docs[n])
        IN /\ n \in Updated <=> (old /= None /\ new /= None /\ old /= new)
           /\ (old = None \/ new = None) => n \notin Added \cup Updated

\* equal digests, both markers present and different: updated
C11_Witness ==
  /\ PostDetect
  /\ \E n \in Range(files) :
       /\ n \in DOMAIN Known
       /\ Known[n].hash = compute_sha256(docs[n])
       /\ Known[n].last_modified \notin {None, parse_last_modified(docs[n])}
       /\ parse_last_modified(docs[n]) /= None
       /\ n \in Updated

\* equal digests, different markers, the new one missing: unchanged
C11_WitnessMissing ==
  /\ PostDetect
  /\ \E n \in Range(files) :
       /\ n \in DOMAIN Known
       /\ Known[n].hash = compute_sha256(docs[n])
       /\ Known[n].last_modified /= None
       /\ parse_last_modified(docs[n]) = None
       /\ n \notin Updated

\* C12: the added files are exactly the current files without a record, the
\* removed keys exactly the recorded keys without a current file; with no
\* record at all every current file is added and nothing is updated or removed.
C12_ByKeyPresence ==
  PostDetect =>
    /\ Added = Range(files) \ DOMAIN Known
    /\ Removed = DOMAIN Known \ Range(files)
    /\ DOMAIN Known = {} => (to_add = files /\ to_update = << >> /\ removed = << >>)

C12_Witness ==
  /\ PostDetect
  /\ DOMAIN Known /= {}
  /\ Added /= {}
  /\ Removed /= {}

C12_WitnessInitial ==
  /\ PostDetect
  /\ DOMAIN Known = {}
  /\ Len(to_add) = MaxFiles

\* C13: after a successful run every added or updated file has a record in
\* the persisted state with the digest of the current file and the id that
\* this run's upload of the file returned.
C13_RecordsPersisted ==
  pc = "done" =>
    \A n \in Added \cup Updated :
      /\ n \in DOMAIN new_ids
      /\ n \in DOMAIN Persisted
      /\ Persisted[n].hash = compute_sha256(docs[n])
      /\ Persisted[n].file_id = new_ids[n]

\* what holds of C13 in the code: the records are in the persisted state when
\* the write of the state file did not fail
C13_WhenWritten == wrote => C13_RecordsPersisted

C13_WhenWrittenWitness ==
  pc = "done" /\ wrote /\ Added /= {} /\ Updated /= {}

\* C14: when detaching or deleting the old file of an updated document
\* raises, the old id is not in deleted_ids, the run does not end because of
\* it, the new content is uploaded, and the record of the run holds the new id.
C14_DeleteFailureNonFatal ==
  \A i \in 1..Len(to_update) :
    LET n == to_update[i][1]
        old == to_update[i][2]
    IN old \in delete_errors =>
         /\ old \notin Range(deleted_ids)
         /\ pc /= "idle"
         /\ pc = "failed" => outcome \in {"upload", "killed"}
         /\ pc \in {"save", "done"} =>
              /\ n \in DOMAIN new_ids
              /\ << "create", n >> \in Range(calls)
              /\ << "attach", new_ids[n] >> \in Range(calls)
         /\ pc = "done" =>
              /\ sync_state.files.recs[n].file_id = new_ids[n]
              /\ sync_state.files.recs[n].hash = compute_sha256(docs[n])
              /\ wrote => Persisted[n] = sync_state.files.recs[n]

\* the delete of a file that the job uploaded before has failed, and the run
\* has finished and written its state
C14_Witness ==
  /\ pc = "done"
  /\ wrote
  /\ \E i \in 1..Len(to_update) :
       /\ to_update[i][2] \in delete_errors
       /\ to_update[i][2] /= NoId
       /\ to_update[i][2] \in remoteFiles

\* C15: the upload of the new content of an updated document comes after the
\* detach call for its old file, a delete call directly follows the detach
\* call for the same file, and no detach or delete call follows an upload.
C15_DeleteBeforeReupload ==
  \A j \in 1..Len(calls) :
    /\ (calls[j][1] = "create" /\ calls[j][2] \in Updated) =>
         \E i \in 1..(j - 1), k \in 1..Len(to_update) :
           /\ to_update[k][1] = calls[j][2]
           /\ calls[i] = << "detach", to_update[k][2] >>
    /\ calls[j][1] = "delete" => (j > 1 /\ calls[j - 1] = << "detach", calls[j][2] >>)
    /\ calls[j][1] \in {"detach", "delete"} =>
         \A i \in 1..(j - 1) : calls[i][1] \notin {"create", "attach"}

C15_Witness ==
  /\ pc \in {"save", "done"}
  /\ Len(to_update) = MaxFiles
  /\ Len(deleted_ids) = MaxFiles
  /\ \A n \in Updated : << "create", n >> \in Range(calls)

C16_FallbackAtImport ==
  (pc = "done" /\ runsDir = "tmp" /\ wrote) => read_sync_state(TmpFile) = sync_state

C16_FallbackAtImportWitness ==
  pc = "done" /\ runsDir = "tmp" /\ wrote /\ Added /= {}

\* C17: with the API key, the assistant id or the vector store id missing the
\* run gets no further than the scraper and the check of the ids: it ends in
\* an error, issues no remote call and leaves the state file as it was.
C17_ConfigErrorsFirst ==
  (pc /= "idle" /\ (~cfg.api_key \/ ~cfg.assistant_id \/ ~cfg.vector_store_id)) =>
    /\ pc \in {"scrape", "ensure", "failed"}
    /\ pc = "failed" => outcome \in {"config", "scraper", "killed"}
    /\ ~cfg.api_key => (pc = "failed" /\ outcome = "config")
    /\ calls = << >>
    /\ new_ids = << >>
    /\ deleted_ids = << >>
    /\ ~wrote
    /\ stateFile = startFile

\* a run after one that uploaded files ends on the missing vector store id
C17_Witness ==
  /\ pc = "failed"
  /\ outcome = "config"
  /\ cfg.api_key
  /\ cfg.assistant_id
  /\ ~cfg.vector_store_id
  /\ attached /= {}
  /\ docs /= << >>

C17_WitnessApiKey ==
  pc = "failed" /\ outcome = "config" /\ ~cfg.api_key /\ attached /= {}

Unchanged == Range(files) \ (Added \cup Updated)

\* C19: for an unchanged file the run issues no create, and no attach, detach
\* or delete of its remote file, and its record, in memory and in the
\* persisted state, is the record the run found.
C19_UnchangedUntouched ==
  PostDetect =>
    \A n \in Unchanged :
      /\ n \in DOMAIN Known
      /\ << "create", n >> \notin Range(calls)
      /\ n \notin DOMAIN new_ids
      /\ Known[n].file_id /= NoId =>
           \A op \in {"attach", "detach", "delete"} :
             << op, Known[n].file_id >> \notin Range(calls)
      /\ sync_state.files.recs[n] = Known[n]
      /\ n \in DOMAIN Persisted
      /\ Persisted[n] = Known[n]

\* a run that uploaded another file has written its state, and the unchanged
\* file has a remote file
C19_Witness ==
  /\ pc = "done"
  /\ wrote
  /\ new_ids /= << >>
  /\ \E n \in Unchanged : Known[n].file_id /= NoId /\ Known[n].file_id \in attached

\* C20: as long as no detach or delete call has raised, no two files attached
\* to the vector store were uploaded from the same document.
C20_NoDuplicateAttached ==
  ~deleteRaised =>
    \A i, j \in attached : i /= j => fileName[i] /= fileName[j]

\* the run before this one aborted on an upload failure, and this run, over
\* the same snapshot, has uploaded what it had to and written its state
Recovered ==
  /\ prev.ran
  /\ prev.pc = "failed"
  /\ prev.outcome = "upload"
  /\ docs = prev.docs
  /\ pc = "done"
  /\ wrote

\* C21: after a run that follows a run aborted on an upload failure, over
\* the same snapshot and without upload or state-write failure, every file
\* of the snapshot has a record in the persisted state whose file id is not
\* empty and is the id of a file attached to the vector store.
C21_RecoveryComplete ==
  Recovered =>
    \A n \in DOMAIN docs :
      /\ n \in DOMAIN Persisted
      /\ Persisted[n].file_id /= NoId
      /\ Persisted[n].file_id \in attached

\* the start of SpecRecovery is a state of Spec after its second run
C21_StartReached == AfterAbortedUpdate /\ runs = 2

\* C22: after a run that completed and wrote its state, the keys of the
\* persisted files map are the names of the files of the current snapshot,
\* and total_files is their number.
C22_KeysAreSnapshot ==
  (pc = "done" /\ wrote) =>
    /\ DOMAIN Persisted = DOMAIN docs
    /\ read_sync_state(stateFile).total_files = Cardinality(DOMAIN docs)

\* a run that added a file and dropped the record of another has written its state
C22_Witness ==
  /\ pc = "done"
  /\ wrote
  /\ Added /= {}
  /\ Removed /= {}
  /\ DOMAIN Known /= DOMAIN docs

====
